---- MODULE Spec2Model ----
(***************************************************************************)
(* Model of the flash-card study application: the spaced-repetition        *)
(* scheduling engine (LearningAlgorithm) and the study page that drives    *)
(* it (StudyPage, SwipeCard).                                              *)
(*                                                                         *)
(* Time is counted in thousandths of a day, so that every interval the     *)
(* scheduler produces (0.042 d * 0.5 = 0.021 d being the smallest) is an   *)
(* integer.  Priorities are kept in the same unit (days * 1000), which     *)
(* preserves the order the comparator of the sort sees.                    *)
(***************************************************************************)
EXTENDS Integers, Sequences, FiniteSets, TLC

VARIABLES
    now,              \* the clock read by new Date()
    jsonCards,        \* the cards served by /learning-data.json
    urlMode,          \* the mode parameter of the page URL
    pc,               \* "mount": effects not run yet, "fetch": fetch in flight, "idle"
    cards,            \* StudyPage state: the card pool
    currentDeck,      \* StudyPage state: the deck of the session
    currentIndex,     \* StudyPage state: the index pointer into the deck
    loading,          \* StudyPage state
    sessionStats,     \* StudyPage state
    selectedChapter,  \* StudyPage state
    deckSize,         \* StudyPage state
    studyMode,        \* StudyPage state
    storage,          \* localStorage item 'uchuichi-progress'
    timers,           \* pending setTimeout callbacks, in the order they were set
    gen,              \* the last call of generateStudyDeck: its arguments and result
    swipe,            \* the last answer event handleSwipe accepted
    budget,           \* user actions, clock advances and reloads still allowed
    stats             \* the last result of calculateStats

vars == <<now, jsonCards, urlMode, pc, cards, currentDeck, currentIndex, loading,
          sessionStats, selectedChapter, deckSize, studyMode, storage, timers, gen,
          swipe, budget, stats>>

----------------------------------------------------------------------------
(* Values *)

\* An optional Date that is not set (lastReviewed?: Date, nextReview?: Date).
None == -1

Min(a, b) == IF a <= b THEN a ELSE b
Max(a, b) == IF a >= b THEN a ELSE b

\* Array.prototype.slice(start, end) on a sequence (0-based bounds, negative
\* bounds count from the end).
Slice(s, start, end) ==
    LET n  == Len(s)
        a  == IF start < 0 THEN Max(n + start, 0) ELSE Min(start, n)
        b  == IF end < 0 THEN Max(n + end, 0) ELSE Min(end, n)
    IN  IF a >= b THEN <<>> ELSE SubSeq(s, a + 1, b)

\* Array.prototype.includes: the cards of a pool are distinct objects.
Includes(s, c) == \E i \in 1..Len(s) : s[i] = c


----------------------------------------------------------------------------
(* LearningAlgorithm.calculateNextReview *)

\* The confidence update without the clamp to 0..100.
NewConfidenceUnclamped(card, quality) ==
    LET confidence == IF card.confidence = 0 \/ card.confidence = None
                      THEN 50 ELSE card.confidence
    IN  IF quality >= 3
        THEN confidence + (quality - 3) * 15
        ELSE confidence - (3 - quality) * 20

NewConfidence(card, quality) ==
    LET confidence == IF card.confidence = 0 \/ card.confidence = None
                      THEN 50 ELSE card.confidence
    IN  IF quality >= 3
        THEN Min(100, confidence + (quality - 3) * 15)
        ELSE Max(0, confidence - (3 - quality) * 20)

\* The interval table with no interval left for a confidence below 30.
BaseIntervalNoneBelowThirty(confidence) ==
    IF confidence >= 90 THEN 7000
    ELSE IF confidence >= 70 THEN 3000
    ELSE IF confidence >= 50 THEN 1000
    ELSE IF confidence >= 30 THEN 250
    ELSE 0

BaseInterval(confidence) ==
    IF confidence >= 90 THEN 7000
    ELSE IF confidence >= 70 THEN 3000
    ELSE IF confidence >= 50 THEN 1000
    ELSE IF confidence >= 30 THEN 250
    ELSE 42

\* The success-rate factor with a rate of exactly 0.8 counted as above 0.8.
SuccessAdjustFromEightTenths(card, interval) ==
    IF card.reviewCount > 0
    THEN IF card.correctCount * 5 >= card.reviewCount * 4 THEN (interval * 3) \div 2
         ELSE IF card.correctCount * 2 < card.reviewCount THEN interval \div 2
         ELSE interval
    ELSE interval

SuccessAdjust(card, interval) ==
    IF card.reviewCount > 0
    THEN IF card.correctCount * 5 > card.reviewCount * 4 THEN (interval * 3) \div 2
         ELSE IF card.correctCount * 2 < card.reviewCount THEN interval \div 2
         ELSE interval
    ELSE interval

calculateNextReview(card, quality, t) ==
    LET confidence == NewConfidence(card, quality)
        interval   == SuccessAdjust(card, BaseInterval(confidence))
    IN  [nextReview |-> t + interval, confidence |-> confidence]

----------------------------------------------------------------------------
(* LearningAlgorithm.getCardPriority, in thousandths of a day *)

\* getCardPriority without the early return for a never-reviewed card.
getCardPriorityNoEarlyReturn(card, t) ==
    LET base == IF card.nextReview # None /\ card.nextReview < t
                THEN 0 - (t - card.nextReview)
                ELSE IF card.nextReview # None
                THEN card.nextReview - t
                ELSE 0
    IN  base - (100 - card.confidence) * 20 - card.difficulty * 2000

getCardPriority(card, t) ==
    IF card.reviewCount = 0 THEN 0
    ELSE LET base == IF card.nextReview # None /\ card.nextReview < t
                     THEN 0 - (t - card.nextReview)
                     ELSE IF card.nextReview # None
                     THEN card.nextReview - t
                     ELSE 0
         IN  base - (100 - card.confidence) * 20 - card.difficulty * 2000

----------------------------------------------------------------------------
(* Array.prototype.sort with a numeric key: a stable sort, ascending *)

\* Entries are <<key, element>> pairs; x goes after every entry whose key is
\* not greater than its own, so equal keys keep their order.
RECURSIVE InsertByKey(_, _)
InsertByKey(sorted, x) ==
    IF sorted = <<>> THEN <<x>>
    ELSE IF sorted[1][1] <= x[1]
         THEN <<sorted[1]>> \o InsertByKey(Tail(sorted), x)
         ELSE <<x>> \o sorted

RECURSIVE SortPairs(_, _)
SortPairs(pairs, n) ==
    IF n = 0 THEN <<>> ELSE InsertByKey(SortPairs(pairs, n - 1), pairs[n])

SortByKey(s, keys) ==
    LET sorted == SortPairs([i \in 1..Len(s) |-> <<keys[i], s[i]>>], Len(s))
    IN  [i \in 1..Len(s) |-> sorted[i][2]]

\* The priorities the comparator of the sort computes for the cards of a pool.
priorities(pool, t) == [i \in 1..Len(pool) |-> getCardPriority(pool[i], t)]

sortedCards(pool, t) == SortByKey(pool, priorities(pool, t))

----------------------------------------------------------------------------
(* LearningAlgorithm.generateStudyDeck *)

isNew(c)     == c.reviewCount = 0
isDue(c, t)  == c.nextReview # None /\ c.nextReview <= t /\ c.reviewCount > 0
isWeak(c)    == c.confidence < 50 /\ c.reviewCount > 0

newCardLimit(size)  == (size * 3) \div 10
weakCardLimit(size) == (size * 4) \div 10
\* The due-card limit as the whole requested size.
dueCardLimitWhole(size) == size

dueCardLimit(size)  == size - newCardLimit(size) - weakCardLimit(size)

\* The deck before the back-fill: the three slices, pushed one after another.
PushSlices(sorted, size, t) ==
    LET newCards  == SelectSeq(sorted, isNew)
        dueCards  == SelectSeq(sorted, LAMBDA c : isDue(c, t))
        weakCards == SelectSeq(sorted, isWeak)
    IN  Slice(newCards, 0, newCardLimit(size))
        \o Slice(weakCards, 0, weakCardLimit(size))
        \o Slice(dueCards, 0, dueCardLimit(size))

\* The back-fill from the cards not in the deck yet.
Backfill(deck, sorted, size) ==
    IF Len(deck) < size
    THEN LET remaining == SelectSeq(sorted, LAMBDA c : ~Includes(deck, c))
         IN  deck \o Slice(remaining, 0, size - Len(deck))
    ELSE deck

\* The deck as composed, before the shuffle.
ComposeDeck(pool, size, t) ==
    LET sorted == sortedCards(pool, t)
    IN  Backfill(PushSlices(sorted, size, t), sorted, size)

fixedCount == 3

\* The outcomes of the random draws of a shuffle of m elements: draws[i - 1]
\* is the position j <= i that position i is swapped with, for i = m down to 2.
RECURSIVE Draws(_)
Draws(m) ==
    IF m <= 1 THEN {<<>>}
    ELSE {Append(d, j) : d \in Draws(m - 1), j \in 1..m}

\* The exchange with only its first assignment made.
SwapOverwriting(s, i, j) == [s EXCEPT ![i] = s[j]]

Swap(s, i, j) == [s EXCEPT ![i] = s[j], ![j] = s[i]]

RECURSIVE FisherYates(_, _, _)
FisherYates(s, draws, i) ==
    IF i <= 1 THEN s
    ELSE FisherYates(Swap(s, i, draws[i - 1]), draws, i - 1)

\* The shuffle with one card fewer kept in front.
ShuffleKeepingTwo(deck, draws) ==
    LET toShuffle == Slice(deck, fixedCount - 1, Len(deck))
    IN  Slice(deck, 0, fixedCount - 1)
        \o FisherYates(toShuffle, draws, Min(Len(draws) + 1, Len(toShuffle)))

Shuffle(deck, draws) ==
    LET toShuffle == Slice(deck, fixedCount, Len(deck))
    IN  Slice(deck, 0, fixedCount) \o FisherYates(toShuffle, draws, Len(toShuffle))

ShuffleDraws(deck) == Draws(Len(Slice(deck, fixedCount, Len(deck))))

generateStudyDeck(pool, size, t, draws) == Shuffle(ComposeDeck(pool, size, t), draws)

----------------------------------------------------------------------------
(* Cards *)

Card(id, chapter, difficulty, reviewCount, correctCount, confidence, lastReviewed, nextReview) ==
    [id |-> id, chapter |-> chapter, difficulty |-> difficulty,
     reviewCount |-> reviewCount, correctCount |-> correctCount,
     confidence |-> confidence, lastReviewed |-> lastReviewed,
     nextReview |-> nextReview]

\* The committed card with reviewCount left as it was.
updatedCardKeepingReviewCount(currentCard, quality, t) ==
    LET r == calculateNextReview(currentCard, quality, t)
    IN  [currentCard EXCEPT
            !.lastReviewed = t,
            !.nextReview = r.nextReview,
            !.correctCount = IF quality >= 3 THEN currentCard.correctCount + 1
                             ELSE currentCard.correctCount,
            !.confidence = r.confidence]

\* The card handleSwipe commits for an answer of the given quality.
updatedCard(currentCard, quality, t) ==
    LET r == calculateNextReview(currentCard, quality, t)
    IN  [currentCard EXCEPT
            !.lastReviewed = t,
            !.nextReview = r.nextReview,
            !.reviewCount = currentCard.reviewCount + 1,
            !.correctCount = IF quality >= 3 THEN currentCard.correctCount + 1
                             ELSE currentCard.correctCount,
            !.confidence = r.confidence]

\* cards.map(card => card.id === updatedCard.id ? updatedCard : card)
updatedCards(pool, updated) ==
    [i \in 1..Len(pool) |-> IF pool[i].id = updated.id THEN updated ELSE pool[i]]

----------------------------------------------------------------------------
(* localStorage: saveProgress writes, loadProgress reads and merges *)

\* The progress records saveProgress stores, as JSON.stringify keeps them: a
\* Date becomes its ISO string (kept here as the same instant), an unset
\* field is left out (None).
saveProgress(pool) ==
    [present |-> TRUE,
     progress |-> [i \in 1..Len(pool) |->
                      [id |-> pool[i].id,
                       reviewCount |-> pool[i].reviewCount,
                       correctCount |-> pool[i].correctCount,
                       confidence |-> pool[i].confidence,
                       lastReviewed |-> pool[i].lastReviewed,
                       nextReview |-> pool[i].nextReview]]]

\* { ...card, ...savedCard, lastReviewed: ..., nextReview: ... }
mergeSaved(card, savedCard) ==
    [card EXCEPT
        !.reviewCount = savedCard.reviewCount,
        !.correctCount = savedCard.correctCount,
        !.confidence = IF savedCard.confidence = None THEN card.confidence
                       ELSE savedCard.confidence,
        !.lastReviewed = savedCard.lastReviewed,
        !.nextReview = savedCard.nextReview]

\* progress.find(p => p.id === card.id): the first match, 0 when there is none
findSaved(progress, id) ==
    IF \E k \in 1..Len(progress) : progress[k].id = id
    THEN CHOOSE k \in 1..Len(progress) :
            progress[k].id = id /\ \A m \in 1..(k - 1) : progress[m].id # id
    ELSE 0

\* The pool loadProgress returns (and sets) for the pool and storage it reads.
loadProgress(pool, store) ==
    IF store.present
    THEN [i \in 1..Len(pool) |->
            LET k == findSaved(store.progress, pool[i].id)
            IN  IF k # 0 THEN mergeSaved(pool[i], store.progress[k]) ELSE pool[i]]
    ELSE pool

----------------------------------------------------------------------------
(* StudyPage.generateNewDeck *)

DefaultDeckSize == 20
QuickDeckSize == 10
\* The options of the two selects the model exercises (the page offers the
\* sizes 10, 20, 30, 50 and the chapters all and three named ones).
DeckSizeOptions == {10, 20}
Chapters == {"all", "inorganic"}
AnswerQualities == {1, 4, 5}

chapterFiltered(pool, chapter) ==
    IF chapter # "all" THEN SelectSeq(pool, LAMBDA c : c.chapter = chapter) ELSE pool

\* The weak filter with a success rate of exactly one half let through.
isWeakOrNewAtHalf(c) ==
    c.reviewCount = 0 \/ (c.reviewCount > 0 /\ c.correctCount * 2 <= c.reviewCount)

isWeakOrNew(c) ==
    c.reviewCount = 0 \/ (c.reviewCount > 0 /\ c.correctCount * 2 < c.reviewCount)

quickSorted(pool) ==
    SortByKey(pool, [i \in 1..Len(pool) |->
                        IF pool[i].confidence = None THEN 0 ELSE pool[i].confidence])

modeFiltered(pool, mode) ==
    CASE mode = "weak"  -> SelectSeq(pool, isWeakOrNew)
      [] mode = "new"   -> SelectSeq(pool, isNew)
      [] mode = "quick" -> quickSorted(pool)
      [] OTHER          -> pool

filteredCards(pool, chapter, mode) == modeFiltered(chapterFiltered(pool, chapter), mode)

\* The quick mode sorts in place: with no chapter filter the array sorted is
\* the pool itself.
poolAfterGenerate(pool, chapter, mode) ==
    IF mode = "quick" /\ chapter = "all" THEN quickSorted(pool) ELSE pool

\* The size handed on as it is held, whatever the mode.
heldDeckSize(mode, size) == size

actualDeckSize(mode, size) == IF mode = "quick" THEN QuickDeckSize ELSE size

\* Pending callbacks that hold the pool array itself see it sorted in place.
aliasSorted(pending, pool, chapter, mode) ==
    [i \in 1..Len(pending) |->
        IF pending[i].sameArr
        THEN [pending[i] EXCEPT !.cards = poolAfterGenerate(pool, chapter, mode)]
        ELSE pending[i]]

\* Pending callbacks after setCards has installed another array.
unaliased(pending) ==
    [i \in 1..Len(pending) |-> [pending[i] EXCEPT !.sameArr = FALSE]]

\* The reset that leaves the streak as it is.
resetStatsKeepingStreak(prev) == [prev EXCEPT !.studied = 0, !.correct = 0]

resetStats(prev) == [prev EXCEPT !.studied = 0, !.correct = 0, !.streak = 0]

\* generateNewDeck(pool) as run by a render that holds chapter, mode and size;
\* pending are the callbacks waiting when it runs.
generateNewDeck(pool, chapter, mode, size, pending) ==
    LET filtered == filteredCards(pool, chapter, mode)
        n        == actualDeckSize(mode, size)
        composed == ComposeDeck(filtered, n, now)
    IN  \E draws \in ShuffleDraws(composed) :
            LET deck == Shuffle(composed, draws)
            IN  /\ currentDeck' = deck
                /\ currentIndex' = 0
                /\ sessionStats' = resetStats(sessionStats)
                /\ cards' = poolAfterGenerate(pool, chapter, mode)
                /\ timers' = aliasSorted(pending, pool, chapter, mode)
                /\ gen' = [called |-> TRUE, pool |-> filtered, size |-> n,
                           priority |-> priorities(filtered, now),
                           composed |-> composed, mode |-> mode,
                           chapter |-> chapter, requested |-> size]

----------------------------------------------------------------------------
(* Bounds and inputs *)

StartTime == 10000      \* the clock when the page is opened
MaxCards == 2           \* cards in /learning-data.json
MaxEvents == 4          \* user actions, clock advances and reloads in a behaviour
MaxTimers == 2          \* callbacks pending at once
TickSteps == {1000}
UrlModes == {"none", "weak", "quick", "new"}

\* Review states a card of /learning-data.json may carry.
NeverReviewed == [difficulty |-> 1, reviewCount |-> 0, correctCount |-> 0,
                  confidence |-> 0, lastReviewed |-> None, nextReview |-> None]
WeakOverdue   == [difficulty |-> 3, reviewCount |-> 2, correctCount |-> 0,
                  confidence |-> 20, lastReviewed |-> StartTime - 1021,
                  nextReview |-> StartTime - 1000]
StrongLater   == [difficulty |-> 2, reviewCount |-> 5, correctCount |-> 5,
                  confidence |-> 95, lastReviewed |-> StartTime - 3500,
                  nextReview |-> StartTime + 7000]
PageKinds == {NeverReviewed, WeakOverdue}

ChapterOf(id) == IF id % 2 = 1 THEN "theory" ELSE "inorganic"

MakeCard(id, kind) ==
    Card(id, ChapterOf(id), kind.difficulty, kind.reviewCount, kind.correctCount,
         kind.confidence, kind.lastReviewed, kind.nextReview)

\* Pools of at most n cards with ids 1, 2, ... over the given review states.
PoolsOver(kinds, n) ==
    UNION {{[i \in 1..k |-> MakeCard(i, f[i])] : f \in [1..k -> kinds]} : k \in 0..n}

JsonPools == PoolsOver(PageKinds, MaxCards)

NoGen == [called |-> FALSE, pool |-> <<>>, size |-> 0, priority |-> <<>>,
          composed |-> <<>>, mode |-> "normal", chapter |-> "all", requested |-> 0]
NoSwipe == [accepted |-> FALSE, id |-> 0, quality |-> 0, confidenceIn |-> 0,
            reviewCountBefore |-> 0, correctCountBefore |-> 0,
            reviewCountAfter |-> 0, correctCountAfter |-> 0]
NoStats == [studied |-> 0, correct |-> 0, streak |-> 0, maxStreak |-> 0]

\* The statistics before calculateStats has been called.
NoStudyStats == [called |-> FALSE, mastered |-> 0, learning |-> 0, new |-> 0,
                 averageConfidence |-> 0, weakestTopics |-> <<>>]
NoStorage == [present |-> FALSE, progress |-> <<>>]

----------------------------------------------------------------------------
(* The study page *)

\* The state of a freshly constructed StudyPage (the useState defaults).
FreshPage ==
    /\ pc = "mount"
    /\ cards = <<>>
    /\ currentDeck = <<>>
    /\ currentIndex = 0
    /\ loading = TRUE
    /\ sessionStats = NoStats
    /\ selectedChapter = "all"
    /\ deckSize = DefaultDeckSize
    /\ studyMode = "normal"
    /\ timers = <<>>

Init ==
    /\ now = StartTime
    /\ jsonCards \in JsonPools
    /\ urlMode \in UrlModes
    /\ FreshPage
    /\ storage = NoStorage
    /\ gen = NoGen
    /\ swipe = NoSwipe
    /\ budget = MaxEvents
    /\ stats = NoStudyStats

\* The mount effect: loadCards starts its fetch, the URL mode is applied.
Mount ==
    /\ pc = "mount"
    /\ pc' = "fetch"
    /\ studyMode' = IF urlMode \in {"weak", "quick", "new"} THEN urlMode ELSE studyMode
    /\ deckSize' = IF urlMode = "quick" THEN QuickDeckSize ELSE deckSize
    /\ UNCHANGED <<stats, now, jsonCards, urlMode, cards, currentDeck, currentIndex, loading,
                   sessionStats, selectedChapter, storage, timers, gen, swipe,
                   budget>>

\* loadCards after the fetch: it runs in the first render, whose chapter, mode
\* and deck size are the defaults.
FetchDone ==
    /\ pc = "fetch"
    /\ pc' = "idle"
    /\ loading' = FALSE
    /\ generateNewDeck(jsonCards, "all", "normal", DefaultDeckSize,
                       unaliased(timers))
    /\ UNCHANGED <<stats, now, jsonCards, urlMode, selectedChapter, deckSize, studyMode,
                   storage, swipe, budget>>

\* loadCards when the fetch or the parse fails.
FetchFail ==
    /\ pc = "fetch"
    /\ pc' = "idle"
    /\ loading' = FALSE
    /\ UNCHANGED <<stats, now, jsonCards, urlMode, cards, currentDeck, currentIndex,
                   sessionStats, selectedChapter, deckSize, studyMode, storage,
                   timers, gen, swipe, budget>>

isDeckComplete == currentIndex >= Len(currentDeck)
ControlsShown == ~loading /\ ~isDeckComplete

\* The effect on selectedChapter and deckSize, in the render that holds them.
ProgressEffect(chapter, size) ==
    IF Len(cards) > 0
    THEN generateNewDeck(loadProgress(cards, storage), chapter, studyMode, size,
                         IF storage.present THEN unaliased(timers) ELSE timers)
    ELSE UNCHANGED <<cards, currentDeck, currentIndex, sessionStats, timers, gen>>

ChangeChapter ==
    /\ ControlsShown
    /\ \E chapter \in Chapters \ {selectedChapter} :
          /\ selectedChapter' = chapter
          /\ ProgressEffect(chapter, deckSize)
    /\ budget > 0
    /\ budget' = budget - 1
    /\ UNCHANGED <<stats, now, jsonCards, urlMode, pc, loading, deckSize, studyMode, storage,
                   swipe>>

ChangeDeckSize ==
    /\ ControlsShown
    /\ studyMode # "quick"
    /\ \E size \in DeckSizeOptions \ {deckSize} :
          /\ deckSize' = size
          /\ ProgressEffect(selectedChapter, size)
    /\ budget > 0
    /\ budget' = budget - 1
    /\ UNCHANGED <<stats, now, jsonCards, urlMode, pc, loading, selectedChapter, studyMode,
                   storage, swipe>>

\* The regenerate button of the control panel.
Regenerate ==
    /\ ControlsShown
    /\ generateNewDeck(cards, selectedChapter, studyMode, deckSize, timers)
    /\ budget > 0
    /\ budget' = budget - 1
    /\ UNCHANGED <<stats, now, jsonCards, urlMode, pc, loading, selectedChapter, deckSize,
                   studyMode, storage, swipe>>

\* The button of the session-complete screen.
NextSession ==
    /\ ~loading
    /\ isDeckComplete
    /\ generateNewDeck(cards, selectedChapter, studyMode, deckSize, timers)
    /\ budget > 0
    /\ budget' = budget - 1
    /\ UNCHANGED <<stats, now, jsonCards, urlMode, pc, loading, selectedChapter, deckSize,
                   studyMode, storage, swipe>>

----------------------------------------------------------------------------
(* SwipeCard and StudyPage.handleSwipe *)

\* The card area with the test on the loading flag turned around.
CardShownWhileLoading == loading /\ ~isDeckComplete

CardShown == ~loading /\ ~isDeckComplete

\* SwipeCard.handleAnswer: an answer button of the card on top (its answer
\* revealed) sets a 300 ms timer that will call the onSwipe of the render in
\* which the button was pressed.  Nothing disables the buttons meanwhile.
PressAnswer ==
    /\ CardShown
    /\ Len(timers) < MaxTimers
    /\ \E quality \in AnswerQualities :
          timers' = Append(timers,
                           [kind |-> "answer", quality |-> quality, cards |-> cards,
                            deck |-> currentDeck, index |-> currentIndex,
                            sameArr |-> TRUE])
    /\ UNCHANGED <<stats, now, jsonCards, urlMode, pc, cards, currentDeck, currentIndex,
                   loading, sessionStats, selectedChapter, deckSize, studyMode,
                   storage, gen, swipe>>

AnswerClick ==
    /\ budget > 0
    /\ budget' = budget - 1
    /\ PressAnswer

AdvanceTimer ==
    [kind |-> "advance", quality |-> 0, cards |-> <<>>, deck |-> <<>>, index |-> 0,
     sameArr |-> FALSE]

updatedStats(prev, quality) ==
    LET isCorrect == quality >= 3
    IN  [studied   |-> prev.studied + 1,
         correct   |-> IF isCorrect THEN prev.correct + 1 ELSE prev.correct,
         streak    |-> IF isCorrect THEN prev.streak + 1 ELSE 0,
         maxStreak |-> IF isCorrect THEN Max(prev.maxStreak, prev.streak + 1)
                       ELSE prev.maxStreak]

\* The card of a pool with the given id; FieldOf reads one of its counters,
\* 0 when the pool has no such card.
HasCard(pool, id) == \E i \in 1..Len(pool) : pool[i].id = id
PoolCard(pool, id) == pool[CHOOSE i \in 1..Len(pool) : pool[i].id = id]
ReviewCountOf(pool, id) == IF HasCard(pool, id) THEN PoolCard(pool, id).reviewCount ELSE 0
CorrectCountOf(pool, id) == IF HasCard(pool, id) THEN PoolCard(pool, id).correctCount ELSE 0

\* What is recorded of an answer event: the card scored, and the counters the
\* pool held for it before and after.
SwipeRecord(currentCard, quality, before, after) ==
    [accepted |-> TRUE, id |-> currentCard.id, quality |-> quality,
     confidenceIn |-> currentCard.confidence,
     reviewCountBefore |-> ReviewCountOf(before, currentCard.id),
     correctCountBefore |-> CorrectCountOf(before, currentCard.id),
     reviewCountAfter |-> ReviewCountOf(after, currentCard.id),
     correctCountAfter |-> CorrectCountOf(after, currentCard.id)]

\* The answer timer fires: handleSwipe of the render that set it runs.
HandleSwipe ==
    /\ timers # <<>>
    /\ Head(timers).kind = "answer"
    /\ LET t == Head(timers)
       IN  IF t.index >= Len(t.deck)
           THEN /\ timers' = Tail(timers)
                /\ UNCHANGED <<cards, storage, sessionStats, swipe>>
           ELSE LET currentCard == t.deck[t.index + 1]
                    updated     == updatedCard(currentCard, t.quality, now)
                    newCards    == updatedCards(t.cards, updated)
                IN  /\ cards' = newCards
                    /\ storage' = saveProgress(newCards)
                    /\ sessionStats' = updatedStats(sessionStats, t.quality)
                    /\ timers' = Append(unaliased(Tail(timers)), AdvanceTimer)
                    /\ swipe' = SwipeRecord(currentCard, t.quality, cards, newCards)
    /\ UNCHANGED <<stats, now, jsonCards, urlMode, pc, currentDeck, currentIndex, loading,
                   selectedChapter, deckSize, studyMode, gen, budget>>

\* The timer set by handleSwipe fires: setCurrentIndex(prev => prev + 1).
AdvanceIndex ==
    /\ timers # <<>>
    /\ Head(timers).kind = "advance"
    /\ timers' = Tail(timers)
    /\ currentIndex' = currentIndex + 1
    /\ UNCHANGED <<stats, now, jsonCards, urlMode, pc, cards, currentDeck, loading,
                   sessionStats, selectedChapter, deckSize, studyMode, storage, gen,
                   swipe, budget>>

----------------------------------------------------------------------------
(* The environment *)

Tick ==
    /\ budget > 0
    /\ \E d \in TickSteps : now' = now + d
    /\ budget' = budget - 1
    /\ UNCHANGED <<stats, jsonCards, urlMode, pc, cards, currentDeck, currentIndex, loading,
                   sessionStats, selectedChapter, deckSize, studyMode, storage,
                   timers, gen, swipe>>

\* The page is loaded again from the same URL: a fresh StudyPage, the same
\* localStorage, no timer of the old page left.
Reload ==
    /\ budget > 0
    /\ budget' = budget - 1
    /\ pc' = "mount"
    /\ cards' = <<>>
    /\ currentDeck' = <<>>
    /\ currentIndex' = 0
    /\ loading' = TRUE
    /\ sessionStats' = NoStats
    /\ selectedChapter' = "all"
    /\ deckSize' = DefaultDeckSize
    /\ studyMode' = "normal"
    /\ timers' = <<>>
    /\ gen' = NoGen
    /\ swipe' = NoSwipe
    /\ UNCHANGED <<stats, now, jsonCards, urlMode, storage>>

Next ==
    \/ Mount
    \/ FetchDone
    \/ FetchFail
    \/ ChangeChapter
    \/ ChangeDeckSize
    \/ Regenerate
    \/ NextSession
    \/ AnswerClick
    \/ HandleSwipe
    \/ AdvanceIndex
    \/ Tick
    \/ Reload

Spec == Init /\ [][Next]_vars

----------------------------------------------------------------------------
(* One session of the page without regeneration: SpecSession *)

\* The freshly constructed page; the only events are the load and the answers.
InitSession ==
    /\ now = StartTime
    /\ jsonCards \in JsonPools
    /\ urlMode \in UrlModes
    /\ FreshPage
    /\ storage = NoStorage
    /\ gen = NoGen
    /\ swipe = NoSwipe
    /\ budget = 0
    /\ stats = NoStudyStats

\* An answer button of the card on top is pressed.
SessionAnswer == PressAnswer /\ UNCHANGED budget

SessionNext ==
    \/ Mount
    \/ FetchDone
    \/ FetchFail
    \/ SessionAnswer
    \/ HandleSwipe
    \/ AdvanceIndex

\* A callback handed to setTimeout is run by the event loop once its delay has
\* passed, and the user answers the card that is shown.
SessionFairness ==
    /\ WF_vars(SessionAnswer)
    /\ WF_vars(HandleSwipe)
    /\ WF_vars(AdvanceIndex)

SpecSession == InitSession /\ [][SessionNext]_vars /\ SessionFairness

----------------------------------------------------------------------------
(* generateStudyDeck on its own: one call on a pool and a requested size *)

MaxPool == 4            \* cards in the pool handed to generateStudyDeck
MaxDeckSize == 5        \* the largest requested size
MaxNegSize == 1         \* the most negative requested size

NewResidual  == [difficulty |-> 5, reviewCount |-> 0, correctCount |-> 0,
                 confidence |-> 80, lastReviewed |-> None,
                 nextReview |-> StartTime - 1000]
WeakLater    == [difficulty |-> 1, reviewCount |-> 4, correctCount |-> 1,
                 confidence |-> 30, lastReviewed |-> StartTime - 125,
                 nextReview |-> StartTime + 125]
DueNow       == [difficulty |-> 4, reviewCount |-> 4, correctCount |-> 2,
                 confidence |-> 60, lastReviewed |-> StartTime - 1000,
                 nextReview |-> StartTime]
Unscheduled  == [difficulty |-> 2, reviewCount |-> 1, correctCount |-> 1,
                 confidence |-> 50, lastReviewed |-> None, nextReview |-> None]
DeckKinds == {NeverReviewed, NewResidual, WeakOverdue, WeakLater, DueNow,
              StrongLater, Unscheduled}

\* A pool one card larger than a quick session.
LargePool ==
    [i \in 1..(QuickDeckSize + 1) |->
        MakeCard(i, IF i <= 6 THEN NeverReviewed ELSE StrongLater)]

\* A pool of six distinct cards: new, weak and well-known ones.
MixedPool ==
    [i \in 1..6 |->
        MakeCard(i, IF i \in {1, 5} THEN NeverReviewed
                    ELSE IF i = 2 THEN WeakLater ELSE StrongLater)]

\* The three cards of the worked example: never reviewed; reviewed 5 times
\* with 1 correct, confidence 20, due since one day; reviewed 10 times with 9
\* correct, confidence 95, due in seven days.
Difficulties == 1..5

ExampleA(d) == [difficulty |-> d, reviewCount |-> 0, correctCount |-> 0,
                confidence |-> 0, lastReviewed |-> None, nextReview |-> None]
ExampleB(d) == [difficulty |-> d, reviewCount |-> 5, correctCount |-> 1,
                confidence |-> 20, lastReviewed |-> StartTime - 1021,
                nextReview |-> StartTime - 1000]
ExampleC(d) == [difficulty |-> d, reviewCount |-> 10, correctCount |-> 9,
                confidence |-> 95, lastReviewed |-> StartTime - 3500,
                nextReview |-> StartTime + 7000]

ExamplePools ==
    {<<MakeCard(1, ExampleA(da)), MakeCard(2, ExampleB(db)), MakeCard(3, ExampleC(dc))>> :
        da \in Difficulties, db \in Difficulties, dc \in Difficulties}

\* Every variable of the page the call does not touch.
PageIdle ==
    /\ jsonCards = <<>>
    /\ urlMode = "none"
    /\ currentDeck = <<>>
    /\ currentIndex = 0
    /\ loading = FALSE
    /\ sessionStats = NoStats
    /\ storage = NoStorage
    /\ timers = <<>>
    /\ gen = NoGen
    /\ swipe = NoSwipe
    /\ budget = 0
    /\ stats = NoStudyStats

InitDeck ==
    /\ now = StartTime
    /\ pc = "call"
    /\ cards \in PoolsOver(DeckKinds, MaxPool) \cup {MixedPool} \cup ExamplePools
    /\ deckSize \in (0 - MaxNegSize)..MaxDeckSize
    /\ selectedChapter = "all"
    /\ studyMode = "normal"
    /\ PageIdle

CallGenerateStudyDeck ==
    /\ pc = "call"
    /\ pc' = "done"
    /\ LET composed == ComposeDeck(cards, deckSize, now)
       IN  \E draws \in ShuffleDraws(composed) :
              /\ currentDeck' = generateStudyDeck(cards, deckSize, now, draws)
              /\ gen' = [called |-> TRUE, pool |-> cards, size |-> deckSize,
                         priority |-> priorities(cards, now),
                         composed |-> composed, mode |-> studyMode,
                         chapter |-> selectedChapter, requested |-> deckSize]
    /\ UNCHANGED <<stats, now, jsonCards, urlMode, cards, currentIndex, loading,
                   sessionStats, selectedChapter, deckSize, studyMode, storage,
                   timers, swipe, budget>>

NextDeck == CallGenerateStudyDeck

SpecDeck == InitDeck /\ [][NextDeck]_vars

----------------------------------------------------------------------------
(* generateNewDeck on its own: one call in a render holding any mode, chapter
   and deck size *)

MaxGenPool == 3         \* cards in the pool of the page

StudyModes == {"normal", "weak", "quick", "new"}
GenKinds == {NeverReviewed, WeakOverdue, DueNow, StrongLater}

InitGen ==
    /\ now = StartTime
    /\ pc = "call"
    /\ cards \in PoolsOver(GenKinds, MaxGenPool) \cup {LargePool}
    /\ deckSize \in DeckSizeOptions
    /\ selectedChapter \in Chapters
    /\ studyMode \in StudyModes
    /\ PageIdle

CallGenerateNewDeck ==
    /\ pc = "call"
    /\ pc' = "done"
    /\ generateNewDeck(cards, selectedChapter, studyMode, deckSize, timers)
    /\ UNCHANGED <<stats, now, jsonCards, urlMode, loading, selectedChapter, deckSize,
                   studyMode, storage, swipe, budget>>

NextGen == CallGenerateNewDeck

SpecGen == InitGen /\ [][NextGen]_vars

----------------------------------------------------------------------------
(* The scorer on its own: a card answered again and again, each answer
   committing what calculateNextReview returns, as handleSwipe does *)

MaxReviews == 2         \* answers in a behaviour
Qualities == 0..5

ScoreHistories == {<<0, 0>>, <<5, 5>>, <<5, 4>>, <<4, 2>>, <<4, 1>>}

ScoreCards ==
    {Card(1, "theory", 3, h[1], h[2], c, None, None) :
        h \in ScoreHistories, c \in 0..100}

InitScore ==
    /\ now = StartTime
    /\ pc = "score"
    /\ \E card \in ScoreCards : cards = <<card>>
    /\ deckSize = DefaultDeckSize
    /\ selectedChapter = "all"
    /\ studyMode = "normal"
    /\ jsonCards = <<>>
    /\ urlMode = "none"
    /\ currentDeck = <<>>
    /\ currentIndex = 0
    /\ loading = FALSE
    /\ sessionStats = NoStats
    /\ storage = NoStorage
    /\ timers = <<>>
    /\ gen = NoGen
    /\ swipe = NoSwipe
    /\ budget = MaxReviews
    /\ stats = NoStudyStats

ScoreAnswer ==
    /\ pc = "score"
    /\ budget > 0
    /\ budget' = budget - 1
    /\ \E quality \in Qualities :
          LET newCards == updatedCards(cards, updatedCard(cards[1], quality, now))
          IN  /\ cards' = newCards
              /\ swipe' = SwipeRecord(cards[1], quality, cards, newCards)
    /\ UNCHANGED <<stats, now, jsonCards, urlMode, pc, currentDeck, currentIndex, loading,
                   sessionStats, selectedChapter, deckSize, studyMode, storage,
                   timers, gen>>

NextScore == ScoreAnswer

SpecScore == InitScore /\ [][NextScore]_vars

----------------------------------------------------------------------------
(* LearningAlgorithm.calculateStats *)

\* card.tags?.forEach: a card without a tags array contributes no tag.
tagsOf(card) == IF "tags" \in DOMAIN card THEN card.tags ELSE <<>>

\* The tags the two nested forEach loops visit, in the order they visit them,
\* each with the card that carries it.
RECURSIVE tagVisits(_)
tagVisits(pool) ==
    IF pool = <<>> THEN <<>>
    ELSE [i \in 1..Len(tagsOf(pool[1])) |-> [tag |-> tagsOf(pool[1])[i], card |-> pool[1]]]
         \o tagVisits(Tail(pool))

\* The keys of tagStats in the order Object.entries lists them: the order in
\* which the tags were first visited.
RECURSIVE firstVisits(_)
firstVisits(visits) ==
    IF visits = <<>> THEN <<>>
    ELSE LET rest == firstVisits(SubSeq(visits, 1, Len(visits) - 1))
             tag  == visits[Len(visits)].tag
         IN  IF \E i \in 1..Len(rest) : rest[i] = tag THEN rest ELSE Append(rest, tag)

\* tagStats[tag] after the loops: total counts the visits of the tag, weak the
\* visits made on a card of confidence below 50.
tagStats(pool) ==
    LET visits == tagVisits(pool)
        keys   == firstVisits(visits)
    IN  [k \in 1..Len(keys) |->
            [tag   |-> keys[k],
             total |-> Cardinality({i \in 1..Len(visits) : visits[i].tag = keys[k]}),
             weak  |-> Cardinality({i \in 1..Len(visits) :
                                      /\ visits[i].tag = keys[k]
                                      /\ visits[i].card.confidence < 50})]]

\* The filter with a threshold that lets a weak fraction of exactly 0.5 pass.
isWeakTopicFromHalf(entry) == entry.weak * 2 >= entry.total

\* stats.weak / stats.total > 0.5, on integers.
isWeakTopic(entry) == entry.weak * 2 > entry.total

RECURSIVE totalsProduct(_)
totalsProduct(entries) ==
    IF entries = <<>> THEN 1 ELSE entries[1].total * totalsProduct(Tail(entries))

\* The comparator (b.weak / b.total) - (a.weak / a.total) orders the entries by
\* descending weak fraction; the fractions are compared over the common
\* denominator of the entries.
weakFractionKeys(entries) ==
    LET common == totalsProduct(entries)
    IN  [i \in 1..Len(entries) |->
            0 - entries[i].weak * (common \div entries[i].total)]

weakestTopics(pool) ==
    LET filtered == SelectSeq(tagStats(pool), isWeakTopic)
        sorted   == SortByKey(filtered, weakFractionKeys(filtered))
        top      == Slice(sorted, 0, 3)
    IN  [i \in 1..Len(top) |-> top[i].tag]

RECURSIVE totalConfidence(_)
totalConfidence(pool) ==
    IF pool = <<>> THEN 0 ELSE pool[1].confidence + totalConfidence(Tail(pool))

\* averageConfidence is kept in thousandths of a point.
calculateStats(pool) ==
    [called            |-> TRUE,
     mastered          |-> Cardinality({i \in 1..Len(pool) : pool[i].confidence >= 80}),
     learning          |-> Cardinality({i \in 1..Len(pool) :
                                          pool[i].confidence >= 30 /\ pool[i].confidence < 80}),
     new               |-> Cardinality({i \in 1..Len(pool) : pool[i].reviewCount = 0}),
     averageConfidence |-> IF Len(pool) > 0
                           THEN (totalConfidence(pool) * 1000) \div Len(pool)
                           ELSE 0,
     weakestTopics     |-> weakestTopics(pool)]

----------------------------------------------------------------------------
(* calculateStats alone: SpecStats *)

MaxStatCards == 3       \* cards in the pool handed to calculateStats

Tags == {"acid", "base", "redox", "salt"}

\* The tags arrays of the pools: empty, one tag, pairs of tags, and all four
\* tags in two orders.  A card lists a tag at most once.
TagLists ==
    {<<>>}
    \cup {<<t>> : t \in Tags}
    \cup {<<"acid", "base">>, <<"base", "acid">>, <<"acid", "redox">>,
          <<"acid", "base", "redox", "salt">>, <<"salt", "redox", "base", "acid">>}

\* tags?: string[] -- the array, or no tags property at all.
TagChoices == {[present |-> FALSE, list |-> <<>>]}
              \cup {[present |-> TRUE, list |-> l] : l \in TagLists}

\* Confidence on either side of the weak threshold.
StatConfidences == {49, 50}

StatCard(i, confidence, tags) ==
    IF tags.present
    THEN [id |-> i, confidence |-> confidence,
          reviewCount |-> IF confidence = 50 THEN 0 ELSE 2, tags |-> tags.list]
    ELSE [id |-> i, confidence |-> confidence,
          reviewCount |-> IF confidence = 50 THEN 0 ELSE 2]

StatPools ==
    UNION {{[i \in 1..k |-> StatCard(i, c[i], t[i])] :
               c \in [1..k -> StatConfidences], t \in [1..k -> TagChoices]} :
           k \in 0..MaxStatCards}

InitStats ==
    /\ now = StartTime
    /\ pc = "call"
    /\ cards \in StatPools
    /\ deckSize = DefaultDeckSize
    /\ selectedChapter = "all"
    /\ studyMode = "normal"
    /\ PageIdle

CallCalculateStats ==
    /\ pc = "call"
    /\ pc' = "done"
    /\ stats' = calculateStats(cards)
    /\ UNCHANGED <<now, jsonCards, urlMode, cards, currentDeck, currentIndex, loading,
                   sessionStats, selectedChapter, deckSize, studyMode, storage, timers,
                   gen, swipe, budget>>

NextStats == CallCalculateStats

SpecStats == InitStats /\ [][NextStats]_vars

----------------------------------------------------------------------------
(* Claims about generateStudyDeck, checked under SpecDeck *)

DeckIds == [i \in 1..Len(currentDeck) |-> currentDeck[i].id]

\* C1: the deck generateStudyDeck returns for a pool of pairwise distinct ids
\* holds no card id twice.
C1_NoDuplicateIds ==
    gen.called =>
        \A i, j \in 1..Len(currentDeck) : i # j => DeckIds[i] # DeckIds[j]

\* C2: for a requested size n >= 0 the deck has exactly min(n, pool length)
\* cards.
C2_DeckLengthIsMin ==
    (gen.called /\ gen.size >= 0) =>
        Len(currentDeck) = Min(gen.size, Len(gen.pool))

C8_NeverReviewedPriorityZero ==
    gen.called =>
        \A i \in 1..Len(gen.pool) :
            gen.pool[i].reviewCount = 0 => gen.priority[i] = 0

\* A pool ranked with a never-reviewed card that carries a residual
\* confidence, a past nextReview and difficulty 5, next to a reviewed card.
C8_Witness ==
    /\ gen.called
    /\ \E i \in 1..Len(gen.pool) :
          /\ gen.pool[i].reviewCount = 0
          /\ gen.pool[i].confidence = 80
          /\ gen.pool[i].nextReview # None
          /\ gen.pool[i].difficulty = 5
          /\ gen.priority[i] = 0
    /\ \E j \in 1..Len(gen.pool) : gen.priority[j] < 0

\* The mode and chapter tests of generateNewDeck, restated on one card.
PassesChapter(c, chapter) == chapter = "all" \/ c.chapter = chapter

PassesMode(c, mode) ==
    CASE mode = "new"  -> ~(c.reviewCount > 0)
      [] mode = "weak" -> c.reviewCount = 0 \/ c.correctCount * 2 < c.reviewCount
      [] OTHER         -> TRUE

\* C4: a deck generateNewDeck builds in mode 'new' holds no card with
\* reviewCount > 0, a deck it builds in mode 'weak' holds only cards with
\* reviewCount = 0 or correctCount/reviewCount < 0.5, and every card of the
\* deck, the backfilled ones included, is a card of the pool that passes the
\* chapter and the mode filter.
C4_ModeFiltersRespected ==
    gen.called =>
        \A i \in 1..Len(currentDeck) :
            /\ gen.mode = "new" => ~(currentDeck[i].reviewCount > 0)
            /\ gen.mode = "weak" =>
                   \/ currentDeck[i].reviewCount = 0
                   \/ currentDeck[i].correctCount * 2 < currentDeck[i].reviewCount
            /\ \E k \in 1..Len(cards) :
                   /\ cards[k] = currentDeck[i]
                   /\ PassesChapter(cards[k], gen.chapter)
                   /\ PassesMode(cards[k], gen.mode)

\* A weak-mode deck that the backfill could not bring up to the requested
\* size: the pool holds a card with success rate exactly one half, which the
\* filter keeps out, and the deck holds a reviewed weak card.
C4_Witness ==
    /\ gen.called
    /\ gen.mode = "weak"
    /\ \E k \in 1..Len(cards) :
          cards[k].reviewCount > 0 /\ cards[k].correctCount * 2 = cards[k].reviewCount
    /\ \E i \in 1..Len(currentDeck) : currentDeck[i].reviewCount > 0
    /\ Len(currentDeck) < gen.size
    /\ Len(currentDeck) < Len(cards)

\* C5: when generateNewDeck runs in mode 'quick' it asks generateStudyDeck for
\* 10 cards whatever deckSize holds, and the deck has at most 10 cards.
C5_QuickRequestsTen ==
    (gen.called /\ gen.mode = "quick") =>
        /\ gen.size = 10
        /\ Len(currentDeck) <= 10

\* A quick session over eleven cards while deckSize holds 20: ten are dealt.
C5_Witness ==
    /\ gen.called
    /\ gen.mode = "quick"
    /\ gen.requested = 20
    /\ Len(cards) = 11
    /\ Len(currentDeck) = 10

\* C6: a card that starts with confidence in 0..100 keeps its confidence in
\* 0..100 after every sequence of answers of quality 0..5, each committing the
\* confidence calculateNextReview returns.
C6_ConfidenceInRange ==
    \A i \in 1..Len(cards) :
        cards[i].confidence >= 0 /\ cards[i].confidence <= 100

\* Two answers in a row, the second one of quality 5 on a confidence above 70:
\* the raw result passes 100 and is committed as 100.
C6_Witness ==
    /\ pc = "score"
    /\ budget = 0
    /\ swipe.accepted
    /\ swipe.quality = 5
    /\ swipe.confidenceIn > 70
    /\ cards[1].confidence = 100

\* C7: an answer of quality >= 3 never leaves the card with less confidence
\* than it had, and an answer of quality < 3 never leaves it with more.
C7_ScoringMonotone ==
    (pc = "score" /\ swipe.accepted) =>
        /\ swipe.quality >= 3 => cards[1].confidence >= swipe.confidenceIn
        /\ swipe.quality < 3 => cards[1].confidence <= swipe.confidenceIn

\* C9: every card of the pool and every entry of the persisted progress has
\* correctCount <= reviewCount, after any answers, deck generations, saves and
\* loads, when the loaded cards had 0 <= correctCount <= reviewCount.
C9_CorrectAtMostReviews ==
    /\ \A i \in 1..Len(cards) : cards[i].correctCount <= cards[i].reviewCount
    /\ storage.present =>
          \A k \in 1..Len(storage.progress) :
              storage.progress[k].correctCount <= storage.progress[k].reviewCount

\* A correct answer has been saved, and a chapter change has since read the
\* progress back into the pool and generated a deck from it.
C9_Witness ==
    /\ pc = "idle"
    /\ storage.present
    /\ swipe.accepted
    /\ swipe.quality >= 3
    /\ selectedChapter # "all"
    /\ gen.called
    /\ \E i \in 1..Len(cards) :
          /\ cards[i].id = swipe.id
          /\ cards[i].reviewCount > 0
          /\ cards[i].correctCount = cards[i].reviewCount
          /\ \E k \in 1..Len(storage.progress) :
                /\ storage.progress[k].id = cards[i].id
                /\ storage.progress[k].reviewCount = cards[i].reviewCount
                /\ storage.progress[k].correctCount = cards[i].correctCount

\* C10: every answer handleSwipe accepts raises the answered card's reviewCount
\* in the pool by exactly 1 over what the pool held just before, and its
\* correctCount by 1 exactly when the quality is >= 3.
C10_OneIncrementPerAnswer ==
    (pc = "idle" /\ swipe.accepted) =>
        /\ swipe.reviewCountAfter = swipe.reviewCountBefore + 1
        /\ swipe.correctCountAfter =
              swipe.correctCountBefore + (IF swipe.quality >= 3 THEN 1 ELSE 0)

----------------------------------------------------------------------------
(* Claims about persistence and ranking *)

\* The review state of a card equals the entry persisted for its id, if any.
AgreesWithSaved(card, store) ==
    store.present =>
        \A k \in 1..Len(store.progress) :
            store.progress[k].id = card.id =>
                /\ store.progress[k].reviewCount = card.reviewCount
                /\ store.progress[k].correctCount = card.correctCount
                /\ store.progress[k].confidence = card.confidence
                /\ store.progress[k].nextReview = card.nextReview

\* C11: every deck generation ranks a pool in which each card's review state
\* is the one most recently persisted for it: no deck is built from a pool
\* that misses an update saveProgress has already written.
C11_GenerationReadsSavedProgress ==
    [][(gen'.called /\ gen' # gen) =>
          \A i \in 1..Len(gen'.pool) : AgreesWithSaved(gen'.pool[i], storage)]_vars

\* C12: for the pool [A never reviewed, B reviewed 5 times with 1 correct,
\* confidence 20, due since one day, C reviewed 10 times with 9 correct,
\* confidence 95, due in seven days], any difficulties, and size 3,
\* generateStudyDeck returns exactly [A, B, C].
C12_ExampleDeck ==
    (gen.called /\ gen.pool \in ExamplePools /\ gen.size = 3) =>
        currentDeck = gen.pool

\* C13: generateStudyDeck returns the empty deck whenever the pool is empty or
\* the requested size is <= 0, negative sizes included.
C13_EmptyDeckOnEmptyInput ==
    (gen.called /\ (Len(gen.pool) = 0 \/ gen.size <= 0)) => currentDeck = <<>>

\* C14: for a requested size >= 0 the deck has at most that many entries.
C14_DeckAtMostSize ==
    (gen.called /\ gen.size >= 0) => Len(currentDeck) <= gen.size

\* A pool larger than the requested size with a card that is weak and due:
\* the deck holds that card twice and is exactly as long as requested.
C14_Witness ==
    /\ gen.called
    /\ gen.size > 0
    /\ Len(gen.pool) > gen.size
    /\ Len(currentDeck) = gen.size
    /\ \E i, j \in 1..Len(currentDeck) : i # j /\ currentDeck[i] = currentDeck[j]

\* C15: immediately after every generateNewDeck the session statistics
\* studied, correct, streak and maxStreak are all 0.
C15_StatsResetOnNewDeck ==
    [][(gen'.called /\ gen' # gen) =>
          /\ sessionStats'.studied = 0
          /\ sessionStats'.correct = 0
          /\ sessionStats'.streak = 0
          /\ sessionStats'.maxStreak = 0]_vars

----------------------------------------------------------------------------
(* Claims about calculateNextReview and getCardPriority *)

\* C16: for a card whose confidence is set to c in 0..100, 0 included, and a
\* quality q, calculateNextReview returns min(100, c + (q - 3) * 15) when q >= 3
\* and max(0, c - (3 - q) * 20) when q < 3.
C16_ConfidenceFormula ==
    (pc = "score" /\ swipe.accepted) =>
        cards[1].confidence =
            IF swipe.quality >= 3
            THEN Min(100, swipe.confidenceIn + (swipe.quality - 3) * 15)
            ELSE Max(0, swipe.confidenceIn - (3 - swipe.quality) * 20)

\* The interval the claim C17 gives, in thousandths of a day, for a resulting
\* confidence and the counts before the presentation.
ExpectedBase(confidence) ==
    CASE confidence >= 90 -> 7000
      [] confidence >= 70 /\ confidence < 90 -> 3000
      [] confidence >= 50 /\ confidence < 70 -> 1000
      [] confidence >= 30 /\ confidence < 50 -> 250
      [] OTHER -> 42

ExpectedInterval(confidence, reviewCount, correctCount) ==
    LET base == ExpectedBase(confidence)
    IN  CASE reviewCount > 0 /\ correctCount * 5 > reviewCount * 4 -> (base * 15) \div 10
          [] reviewCount > 0 /\ correctCount * 2 < reviewCount -> (base * 5) \div 10
          [] OTHER -> base

\* C17: nextReview - now is base * m, base chosen from the resulting
\* confidence (>= 90: 7 d, >= 70: 3 d, >= 50: 1 d, >= 30: 0.25 d, else 0.042 d),
\* m = 1.5 iff reviewCount > 0 and the success rate before the presentation is
\* above 0.8, m = 0.5 iff reviewCount > 0 and it is below 0.5, m = 1 otherwise.
C17_IntervalIsBaseTimesFactor ==
    (pc = "score" /\ swipe.accepted) =>
        cards[1].nextReview - now =
            ExpectedInterval(cards[1].confidence, swipe.reviewCountBefore,
                             swipe.correctCountBefore)

\* A card with 4 correct answers out of 5 (success rate exactly 0.8) answered
\* perfectly: the interval is the plain 7 days.
C17_Witness ==
    /\ pc = "score"
    /\ swipe.accepted
    /\ swipe.reviewCountBefore = 5
    /\ swipe.correctCountBefore = 4
    /\ cards[1].confidence >= 90
    /\ cards[1].nextReview = now + 7000

\* C18: no card with reviewCount > 0 has a getCardPriority value lower than
\* that of a card with reviewCount = 0, so no reviewed card is ranked before a
\* never-reviewed card in the priority-sorted pool.
C18_NeverReviewedMostUrgent ==
    gen.called =>
        \A i, j \in 1..Len(gen.pool) :
            (gen.pool[i].reviewCount > 0 /\ gen.pool[j].reviewCount = 0) =>
                gen.priority[i] >= gen.priority[j]

\* C19: the reviewCount stored under 'uchuichi-progress' for a card id never
\* decreases, across page loads, answers and deck generations.  It is stated
\* here for the case the claim singles out, the first answer a page accepts
\* after it is loaded.
C19_SavedReviewCountNeverDecreases ==
    [][(storage.present /\ storage'.present /\ ~swipe.accepted) =>
          \A k \in 1..Len(storage.progress) :
              \A m \in 1..Len(storage'.progress) :
                  storage'.progress[m].id = storage.progress[k].id =>
                      storage'.progress[m].reviewCount >= storage.progress[k].reviewCount]_vars

\* C20: when the page is opened with mode=quick, mode=weak or mode=new in the
\* URL, the first deck presented after the cards have loaded is built with
\* that mode's filter and size (quick: at most 10 cards; new: only cards with
\* reviewCount = 0; weak: only new cards or cards with success rate < 0.5),
\* not with the normal mode and size 20.
C20_FirstDeckUsesUrlMode ==
    [][(pc = "fetch" /\ pc' = "idle" /\ gen'.called
        /\ urlMode \in {"quick", "weak", "new"}) =>
          /\ urlMode = "quick" => Len(currentDeck') <= 10
          /\ urlMode = "new" =>
                \A i \in 1..Len(currentDeck') : currentDeck'[i].reviewCount = 0
          /\ urlMode = "weak" =>
                \A i \in 1..Len(currentDeck') :
                    \/ currentDeck'[i].reviewCount = 0
                    \/ currentDeck'[i].correctCount * 2 < currentDeck'[i].reviewCount]_vars

----------------------------------------------------------------------------
(* Claims about the pool, the index and the session *)

\* C21: deck generation leaves the card pool it reads unchanged in every mode:
\* the same cards in the same order with the same field values.
C21_GenerationLeavesPoolUnchanged ==
    [][(pc = "call" /\ pc' = "done") => cards' = cards]_vars

\* C22: in every reachable state of the study page currentIndex is at most
\* the length of currentDeck.
C22_IndexWithinDeck ==
    currentIndex <= Len(currentDeck)

\* C23: no deck position is scored twice, so sessionStats.studied never
\* exceeds the length of currentDeck, also when a second answer arrives before
\* the index-advance timer of the first one has fired.  It is stated here
\* for a page opened without a mode and with no chapter selected, where no
\* regeneration makes the deck shorter.
C23_StudiedWithinDeck ==
    (urlMode = "none" /\ selectedChapter = "all") =>
        sessionStats.studied <= Len(currentDeck)

\* C24: every position of the current deck below currentIndex has received an
\* answer, so currentIndex never exceeds the number of answers accepted since
\* the deck was generated; a regeneration while an index-advance timer is
\* pending leaves position 0 the first card to be answered.  It is stated
\* here for an index that lies within the deck.
C24_NoCardSkipped ==
    (currentIndex >= 1 /\ currentIndex <= Len(currentDeck)) =>
        currentIndex <= sessionStats.studied

\* C25: an answer event changes only the answered card's review state: every
\* other card of the pool keeps all its fields, and the answered card keeps
\* its id and content fields (chapter, difficulty).
C25_AnswerTouchesOneCard ==
    [][(pc = "idle" /\ sessionStats'.studied = sessionStats.studied + 1) =>
          /\ Len(cards') = Len(cards)
          /\ \A i \in 1..Len(cards) :
                IF cards[i].id = swipe'.id
                THEN \E j \in 1..Len(cards') :
                        /\ cards'[j].id = cards[i].id
                        /\ cards'[j].chapter = cards[i].chapter
                        /\ cards'[j].difficulty = cards[i].difficulty
                ELSE \E j \in 1..Len(cards') : cards'[j] = cards[i]]_vars

\* How many times a card occurs in a deck.
Occurrences(deck, c) == Cardinality({i \in 1..Len(deck) : deck[i] = c})

\* C26: the deck returned is a permutation of the composed deck, every card
\* with the multiplicity it had, and its first min(3, length) positions hold
\* the cards that held them before the shuffle, whatever the draws.
C26_ShuffleIsPermutation ==
    gen.called =>
        /\ Len(currentDeck) = Len(gen.composed)
        /\ \A i \in 1..Len(gen.composed) :
              Occurrences(currentDeck, gen.composed[i])
                  = Occurrences(gen.composed, gen.composed[i])
        /\ \A i \in 1..Len(currentDeck) :
              i <= 3 => currentDeck[i] = gen.composed[i]

\* A deck of five cards in which one card occurs twice and the two cards
\* behind the third position have changed places.
C26_Witness ==
    /\ gen.called
    /\ Len(currentDeck) = 5
    /\ \E i \in 1..5 : Occurrences(currentDeck, currentDeck[i]) = 2
    /\ currentDeck[4] = gen.composed[5]
    /\ currentDeck[5] = gen.composed[4]
    /\ currentDeck[4] # currentDeck[5]

\* C27: in every reachable state of the study page correct <= studied,
\* streak <= correct and streak <= maxStreak.
C27_SessionCountersOrdered ==
    /\ sessionStats.correct <= sessionStats.studied
    /\ sessionStats.streak <= sessionStats.correct
    /\ sessionStats.streak <= sessionStats.maxStreak

\* Two correct answers, a new deck, and one more correct answer: the streak
\* restarted at the new deck while maxStreak was carried over.
C27_Witness ==
    /\ pc = "idle"
    /\ gen.called
    /\ sessionStats.studied = 1
    /\ sessionStats.correct = 1
    /\ sessionStats.streak = 1
    /\ sessionStats.maxStreak = 2


----------------------------------------------------------------------------
(* Claims about calculateStats, checked under SpecStats *)

hasTag(card, tag) == \E i \in 1..Len(tagsOf(card)) : tagsOf(card)[i] = tag

cardsWithTag(tag) == {i \in 1..Len(cards) : hasTag(cards[i], tag)}

weakCardsWithTag(tag) == {i \in cardsWithTag(tag) : cards[i].confidence < 50}

\* The weak fraction of the tag is strictly greater than 0.5.
mostlyWeak(tag) == Cardinality(weakCardsWithTag(tag)) * 2 > Cardinality(cardsWithTag(tag))

\* The weak fraction of tag a is at least that of tag b (both tags are carried
\* by some card).
fractionAtLeast(a, b) ==
    Cardinality(weakCardsWithTag(a)) * Cardinality(cardsWithTag(b))
        >= Cardinality(weakCardsWithTag(b)) * Cardinality(cardsWithTag(a))

\* C28: weakestTopics holds exactly the tags whose weak fraction is strictly
\* greater than 0.5, in descending order of weak fraction and cut to at most
\* three: every returned tag is mostly weak, no tag is returned twice, the
\* length is min(3, number of mostly weak tags), and a mostly weak tag that was
\* cut has a fraction no greater than any returned one.
C28_WeakestTopics ==
    stats.called =>
        LET topics == stats.weakestTopics
        IN  /\ \A i \in 1..Len(topics) : topics[i] \in Tags /\ mostlyWeak(topics[i])
            /\ \A i, j \in 1..Len(topics) :
                  i < j => topics[i] # topics[j] /\ fractionAtLeast(topics[i], topics[j])
            /\ Len(topics) = Min(3, Cardinality({t \in Tags : mostlyWeak(t)}))
            /\ \A t \in Tags :
                  (mostlyWeak(t) /\ \A i \in 1..Len(topics) : topics[i] # t)
                      => \A i \in 1..Len(topics) : fractionAtLeast(topics[i], t)

\* A pool in which the sort reorders the entries and the threshold excludes a
\* tag: two tags are returned, the first with the strictly greater fraction
\* although some card lists it after the second, and a third tag has a weak
\* fraction of exactly 0.5.
C28_Witness ==
    /\ stats.called
    /\ Len(stats.weakestTopics) = 2
    /\ ~fractionAtLeast(stats.weakestTopics[2], stats.weakestTopics[1])
    /\ \E i \in 1..Len(cards) :
          tagsOf(cards[i]) = <<stats.weakestTopics[2], stats.weakestTopics[1]>>
    /\ \E t \in Tags :
          /\ cardsWithTag(t) # {}
          /\ Cardinality(weakCardsWithTag(t)) * 2 = Cardinality(cardsWithTag(t))


----------------------------------------------------------------------------
(* Claims about the review date, checked under SpecScore *)

\* C30: the nextReview calculateNextReview returns is strictly later than the
\* time of scoring, by at least 0.042 * 0.5 day (21 thousandths of a day).
C30_NextReviewAfterScoring ==
    swipe.accepted =>
        /\ cards[1].lastReviewed = now
        /\ cards[1].nextReview > now
        /\ cards[1].nextReview - now >= 42 \div 2

\* The shortest interval: a card answered correctly less than half of the time
\* whose confidence after the answer is below 30.
C30_Witness ==
    /\ swipe.accepted
    /\ swipe.correctCountBefore * 2 < swipe.reviewCountBefore
    /\ cards[1].confidence < 30
    /\ cards[1].nextReview - now = 42 \div 2


----------------------------------------------------------------------------
(* Claims about the end of a session, checked under SpecSession *)

\* C29: once a deck has been generated, and with no regeneration, every shown
\* card answered and every timer fired, the page reaches the session-complete
\* state: currentIndex >= currentDeck.length.
C29_SessionTerminates ==
    gen.called ~> (~loading /\ currentIndex >= Len(currentDeck))

\* A deck of two cards whose session is complete: both cards were answered and
\* no timer is pending.
C29_Witness ==
    /\ gen.called
    /\ Len(currentDeck) = 2
    /\ currentIndex >= Len(currentDeck)
    /\ sessionStats.studied >= 2
    /\ timers = <<>>

====
